---- MODULE Spec2Model ----
(***************************************************************************)
(* Model of ModuleInstance (src/src/main.ts, the version with secrets):    *)
(* the host calls init, configUpdated and destroy; every invocation is an  *)
(* async function that is suspended at its awaits while discovery events,  *)
(* pairing messages, timers and further host calls run on the event loop.  *)
(* One action is one event-loop turn: the event and the synchronous code   *)
(* (including the promise continuations it releases) that runs with it.    *)
(***************************************************************************)
EXTENDS Integers, Sequences, FiniteSets, TLC

\* ------------------------------------------------------------------ bounds
MaxCalls == 2          \* configUpdated invocations the host makes
MaxDevs == 2           \* items in one device enumeration
MaxFeed == 4           \* discovery events in a feed that is followed event by event

\* ------------------------------------------------------- program constants
PAIRING_PORT == 8083
LEAP_PORT == 8081
UNKNOWN_BRIDGE_ID == "unknown-bridge-id"
PAIRING_WINDOW_MS == 30000
CSR_WINDOW_MS == 5000

\* ------------------------------------------------------------ value spaces
Hosts == {"h1", "h2"}
NoHost == ""
BridgeIds == {"B1", "B2"}
NoID == ""
NotDiscovered == "-"
\* BridgeNetInfo events of the discovery feed: h1 is announced, with either id;
\* h2 is an address the user types in and discovery never reports
BridgeNetInfo(h, id) == [ipAddr |-> h, bridgeid |-> id]
DiscoveryEvents == {BridgeNetInfo("h1", id) : id \in BridgeIds}
\* feeds of the discovery collaborator, over every address
Feeds ==
    UNION {[1..n -> {BridgeNetInfo(h, id) : h \in Hosts, id \in BridgeIds}] : n \in 0..MaxFeed}
InitCall == 0
Calls == 0..MaxCalls
UpdateCalls == 1..MaxCalls

\* PEM values: which bridge issued them, which attempt's key pair they go with
Undefined == [kind |-> "undefined", issuer |-> "", key |-> 0]
RootCert(h) == [kind |-> "root", issuer |-> h, key |-> 0]
ClientCert(h, k) == [kind |-> "client", issuer |-> h, key |-> k]
PrivateKeyPem(k) == [kind |-> "key", issuer |-> "", key |-> k]

\* ModuleConfig, ModuleSecrets (bridgeCerts?: <<>> is undefined)
ModuleConfig(h, id) == [host |-> h, bridgeID |-> id]
NoSecrets == [bridgeCerts |-> <<>>]

\* messages of the pairing connection
StatusMessage(perms) ==
    [StatusCode |-> "200 OK", Permissions |-> perms, SigningResult |-> <<>>]
SigningMessage(h, k) ==
    [StatusCode |-> "200 OK", Permissions |-> {},
     SigningResult |-> <<[RootCertificate |-> RootCert(h), Certificate |-> ClientCert(h, k)]>>]
RejectMessage ==
    [StatusCode |-> "400 BadRequest", Permissions |-> {}, SigningResult |-> <<>>]
StatusMessages == {StatusMessage({"Public"}), StatusMessage({"Public", "PhysicalAccess"})}
CsrWaitMessages(h, k) == {SigningMessage(h, k), RejectMessage} \cup StatusMessages

\* items of a device enumeration: a DeviceDefinition or an Error
ErrorItem == [isError |-> TRUE, DeviceType |-> "", SerialNumber |-> "", AssociatedArea |-> FALSE]
Device(t, s, a) == [isError |-> FALSE, DeviceType |-> t, SerialNumber |-> s, AssociatedArea |-> a]
DeviceItems ==
    {ErrorItem, Device("WallDimmer", "D1", TRUE), Device("Pico", "D2", FALSE),
     Device("SmartBridge", "B1", TRUE)}
Enumerations == UNION {[1..n -> DeviceItems] : n \in 0..MaxDevs}

Status(st, text) == [st |-> st, text |-> text, raw |-> <<>>]
StatusRaw(st, text, m) == [st |-> st, text |-> text, raw |-> <<m>>]
NoStatus == Status("", "")

\* ------------------------------------------------------------------- state
VARIABLES
    config,            \* this.config
    secrets,           \* this.secrets
    discoveredBridges, \* this.discoveredBridges
    devicesOnBridge,   \* this.devicesOnBridge
    bridge,            \* this.bridge: <<>> or <<[id, client]>>
    sessions,          \* LeapClients whose connection is open (by invocation)
    status,            \* last status given to updateStatus
    emitted,           \* the updateStatus calls of the last event-loop turn
    enumerated,        \* the getDeviceInfo() result handled in the last turn, or <<>>
    pairingResult,     \* how pairWithBridge ended in the last turn, or <<>>
    delivered,         \* the pairing-connection message of the last turn, or <<>>
    saved,             \* what the host holds from saveConfig
    call,              \* the async invocations: position and locals
    destroyed,         \* destroy() has run
    feed,              \* the discovery feed that is followed, <<>> when none is
    fed                \* how many events of feed the listener has handled

vars == <<config, secrets, discoveredBridges, devicesOnBridge, bridge, sessions,
          status, emitted, enumerated, pairingResult, delivered, saved, call, destroyed,
          feed, fed>>

IdleCall ==
    [pc |-> "Idle", client |-> NoHost, listener |-> "none", timer |-> 0, keys |-> 0,
     csrSent |-> FALSE, leap |-> <<>>]

LeapClient(h, port, ca, privateKey, certificate) ==
    [host |-> h, port |-> port, ca |-> ca, privateKey |-> privateKey,
     certificate |-> certificate]

\* the instance after its constructor, before the host calls init
Constructed ==
    /\ config = ModuleConfig(NoHost, NoID)
    /\ secrets = NoSecrets
    /\ discoveredBridges = [h \in Hosts |-> NotDiscovered]
    /\ devicesOnBridge = <<>>
    /\ bridge = <<>>
    /\ sessions = {}
    /\ status = NoStatus
    /\ emitted = <<>>
    /\ enumerated = <<>>
    /\ pairingResult = <<>>
    /\ delivered = <<>>
    /\ call = [c \in Calls |-> IdleCall]
    /\ destroyed = FALSE

\* what the host holds for an instance that was just added
FreshInstall == [config |-> ModuleConfig(NoHost, NoID), secrets |-> NoSecrets]

Init == Constructed /\ saved = FreshInstall /\ feed = <<>> /\ fed = 0

\* the same instance, with a discovery feed to be followed
InitDiscovery == Constructed /\ saved = FreshInstall /\ feed \in Feeds /\ fed = 0

\* what the host may hold from earlier runs of the module (config.bridgeID is
\* optional): nothing, or a bundle issued by h1 for an earlier key pair, with no
\* id, the unknown id or a concrete one
StoredRecords ==
    {FreshInstall} \cup
    {[config |-> ModuleConfig("h1", id),
      secrets |-> [bridgeCerts |-> <<[ca |-> RootCert("h1"),
                                      certificate |-> ClientCert("h1", InitCall),
                                      privateKey |-> PrivateKeyPem(InitCall)]>>]] :
        id \in {NoID, UNKNOWN_BRIDGE_ID, "B1"}}

\* the instance is started on any stored record
InitStored == Constructed /\ saved \in StoredRecords /\ feed = <<>> /\ fed = 0

\* ----------------------------------------------------------------- helpers
updateStatus(em) ==
    /\ emitted' = em
    /\ status' = IF em = <<>> THEN status ELSE em[Len(em)]

\* a turn in which no pairing attempt ends and no enumeration is handled
NoResult == pairingResult' = <<>> /\ enumerated' = <<>> /\ delivered' = <<>>

\* the turn is the 'message' event of invocation c's PairingClient
Delivered(c, response) == delivered' = <<[call |-> c, message |-> response]>>

\* pairWithBridge of invocation c ends: its locals are gone, a once-listener that
\* never ran stays registered on the client
Returned(cl) == [IdleCall EXCEPT !.pc = cl.pc, !.listener = cl.listener]
PairingEnded(c, outcome) ==
    /\ pairingResult' = <<[call |-> c, outcome |-> outcome]>>
    /\ enumerated' = <<>>

\* connectToBridge without its guard
connectToBridgeNoGuard(c, cl, cfg, sec, em) ==
    /\ updateStatus(Append(em, Status("Connecting", "Connecting to Bridge")))
    /\ call' = [call EXCEPT ![c] =
           [cl EXCEPT !.pc = "SessConnecting",
                      !.leap = <<LeapClient(cfg.host, LEAP_PORT, sec.bridgeCerts[1].ca,
                                            sec.bridgeCerts[1].privateKey,
                                            sec.bridgeCerts[1].certificate)>>]]

\* connectToBridge up to its first await
connectToBridge(c, cl, cfg, sec, em) ==
    IF cfg.bridgeID = NoID \/ sec.bridgeCerts = <<>>
    THEN /\ updateStatus(Append(em, Status("BadConfig", "No valid configuration or pairing found")))
         /\ call' = [call EXCEPT ![c] = [cl EXCEPT !.pc = "Done"]]
    ELSE /\ updateStatus(Append(em, Status("Connecting", "Connecting to Bridge")))
         /\ call' = [call EXCEPT ![c] =
                [cl EXCEPT !.pc = "SessConnecting",
                           !.leap = <<LeapClient(cfg.host, LEAP_PORT, sec.bridgeCerts[1].ca,
                                                 sec.bridgeCerts[1].privateKey,
                                                 sec.bridgeCerts[1].certificate)>>]]

\* init up to its first await that waits for the network
init(c, cl, cfg, sec, em) ==
    /\ config' = cfg
    /\ secrets' = sec
    /\ LET em1 == Append(em, Status("Connecting", "Initializing"))
       IN IF sec.bridgeCerts # <<>>
          THEN connectToBridge(c, cl, cfg, sec, em1)
          ELSE /\ updateStatus(em1)
               /\ call' = [call EXCEPT ![c] = [cl EXCEPT !.pc = "Done"]]

\* configUpdated after its pairing branch: saveConfig, then init
Reinitialize(c, cl, cfg, sec, em) ==
    /\ saved' = [config |-> cfg, secrets |-> sec]
    /\ init(c, cl, cfg, sec, em)

\* ----------------------------------------------------------------- actions
\* the host starts the instance: init(config, true, secrets)
HostInit ==
    /\ call[InitCall].pc = "Idle"
    /\ init(InitCall, call[InitCall], saved.config, saved.secrets, <<>>)
    /\ NoResult
    /\ UNCHANGED <<discoveredBridges, devicesOnBridge, bridge, sessions, saved, destroyed,
                   feed, fed>>

\* Discovered keeping the first id an address was announced with
DiscoveredFirstWins(h, id) ==
    /\ call[InitCall].pc # "Idle"
    /\ discoveredBridges' =
           IF discoveredBridges[h] = NotDiscovered
           THEN [discoveredBridges EXCEPT ![h] = id] ELSE discoveredBridges
    /\ updateStatus(<<>>)
    /\ NoResult
    /\ UNCHANGED <<config, secrets, devicesOnBridge, bridge, sessions, saved, call, destroyed>>

\* BridgeFinder 'discovered' listener
Discovered(h, id) ==
    /\ call[InitCall].pc # "Idle"
    /\ discoveredBridges' = [discoveredBridges EXCEPT ![h] = id]
    /\ updateStatus(<<>>)
    /\ NoResult
    /\ UNCHANGED <<config, secrets, devicesOnBridge, bridge, sessions, saved, call, destroyed>>

\* pairWithBridge up to client.connect()
pairWithBridge(c, h) ==
    call' = [call EXCEPT ![c] = [IdleCall EXCEPT !.pc = "PairConnecting", !.client = h]]

\* the host calls configUpdated(config, secrets) with the user's host
ConfigUpdated(c, h) ==
    /\ call[InitCall].pc # "Idle"
    /\ ~destroyed
    /\ call[c].pc = "Idle"
    /\ \A d \in UpdateCalls : d < c => call[d].pc # "Idle"
    /\ LET prevConfig == config
           cfg == ModuleConfig(h, saved.config.bridgeID)
           sec == saved.secrets
       IN IF cfg.host # prevConfig.host
          THEN /\ config' = cfg
               /\ secrets' = sec
               /\ updateStatus(<<Status("Connecting", "Pairing with Bridge")>>)
               /\ pairWithBridge(c, cfg.host)
               /\ UNCHANGED saved
          ELSE Reinitialize(c, call[c], cfg, sec, <<>>)
    /\ NoResult
    /\ UNCHANGED <<discoveredBridges, devicesOnBridge, bridge, sessions, destroyed, feed, fed>>

\* client.connect() of the PairingClient resolves: the confirmation wait is set up
PairConnectOk(c) ==
    /\ call[c].pc = "PairConnecting"
    /\ call' = [call EXCEPT ![c].pc = "AwaitConfirm", ![c].listener = "confirm",
                            ![c].timer = PAIRING_WINDOW_MS]
    /\ updateStatus(<<>>)
    /\ NoResult
    /\ UNCHANGED <<config, secrets, discoveredBridges, devicesOnBridge, bridge, sessions,
                   saved, destroyed, feed, fed>>

\* client.connect() of the PairingClient rejects
PairConnectFail(c) ==
    /\ call[c].pc = "PairConnecting"
    /\ Reinitialize(c, Returned(call[c]), config, secrets,
                    <<Status("ConnectionFailure", "Failed to initialize pairing")>>)
    /\ PairingEnded(c, "PairingTransportError")
    /\ delivered' = <<>>
    /\ UNCHANGED <<discoveredBridges, devicesOnBridge, bridge, sessions, destroyed, feed, fed>>

\* res.Body.Status.Permissions.includes('PhysicalAccess')
Confirms(response) == "PhysicalAccess" \in response.Permissions

\* ConfirmListener without the permission check: any message ends the wait
ConfirmListenerAnyMessage(cl, response) == cl.pc = "AwaitConfirm"

\* the once-listener of the confirmation wait: TRUE when it resolves the wait
ConfirmListener(cl, response) == cl.pc = "AwaitConfirm" /\ Confirms(response)

\* a status message arrives on the pairing connection before the CSR is sent
ConfirmMessage(c, response) ==
    /\ call[c].listener = "confirm" \/ call[c].pc = "AwaitConfirm"
    /\ IF call[c].listener # "confirm"
       THEN \* the once-listener has run already: nobody hears the message
            UNCHANGED call
       ELSE IF ConfirmListener(call[c], response)
       THEN \* clearTimeout(t); resolve(); key generation starts
            call' = [call EXCEPT ![c].listener = "none", ![c].timer = 0,
                                 ![c].pc = "GeneratingKeys"]
       ELSE \* not confirming, or the promise is already rejected: the listener is spent
            call' = [call EXCEPT ![c].listener = "none"]
    /\ updateStatus(<<>>)
    /\ pairingResult' = <<>>
    /\ enumerated' = <<>>
    /\ Delivered(c, response)
    /\ UNCHANGED <<config, secrets, discoveredBridges, devicesOnBridge, bridge, sessions,
                   saved, destroyed, feed, fed>>

\* the 30 s timer of the confirmation wait fires
ConfirmTimeout(c) ==
    /\ call[c].pc = "AwaitConfirm"
    /\ call[c].timer = PAIRING_WINDOW_MS
    /\ Reinitialize(c, Returned(call[c]), config, secrets,
                    <<Status("ConnectionFailure", "Pairing timed out: timed out")>>)
    /\ PairingEnded(c, "PairingTimeout")
    /\ delivered' = <<>>
    /\ UNCHANGED <<discoveredBridges, devicesOnBridge, bridge, sessions, destroyed, feed, fed>>

\* forge.pki.rsa.generateKeyPair calls back with a key pair: the CSR is built,
\* signed and sent, and the CSR wait is set up
KeyGenOk(c) ==
    /\ call[c].pc = "GeneratingKeys"
    /\ call' = [call EXCEPT ![c].keys = c, ![c].csrSent = TRUE, ![c].listener = "csr",
                            ![c].timer = CSR_WINDOW_MS, ![c].pc = "AwaitCsr"]
    /\ updateStatus(<<>>)
    /\ NoResult
    /\ UNCHANGED <<config, secrets, discoveredBridges, devicesOnBridge, bridge, sessions,
                   saved, destroyed, feed, fed>>

\* generateKeyPair calls back with an error: the promise rejects outside any try
KeyGenFail(c) ==
    /\ call[c].pc = "GeneratingKeys"
    /\ call' = [call EXCEPT ![c] = [Returned(call[c]) EXCEPT !.pc = "Threw"]]
    /\ updateStatus(<<>>)
    /\ PairingEnded(c, "KeyGenerationFailed")
    /\ delivered' = <<>>
    /\ UNCHANGED <<config, secrets, discoveredBridges, devicesOnBridge, bridge, sessions,
                   saved, destroyed, feed, fed>>

\* BadCsrResponse without the status check
BadCsrResponseUnchecked(certResult) == FALSE

\* certResult.Header.StatusCode !== '200 OK'
BadCsrResponse(certResult) == certResult.StatusCode # "200 OK"

\* the bridge id chosen when pairing completes
PairedBridgeID(cfg, discovered) ==
    IF discovered[cfg.host] # NotDiscovered THEN discovered[cfg.host] ELSE UNKNOWN_BRIDGE_ID

\* BridgeCerts reading a field the signing result does not have
BridgeCertsWrongField(certResult, keys) ==
    [ca |-> Undefined,
     certificate |-> certResult.SigningResult[1].Certificate,
     privateKey |-> PrivateKeyPem(keys)]

\* the object assigned to this.secrets.bridgeCerts
BridgeCerts(certResult, keys) ==
    [ca |-> certResult.SigningResult[1].RootCertificate,
     certificate |-> certResult.SigningResult[1].Certificate,
     privateKey |-> PrivateKeyPem(keys)]

\* the CSR wait resolved with certResult: the status check and the store
CsrResolved(c, cl, certResult) ==
    IF BadCsrResponse(certResult)
    THEN /\ Reinitialize(c, Returned(cl), config, secrets,
                <<StatusRaw("ConnectionFailure", "CSR failed: bad CSR response", certResult)>>)
         /\ PairingEnded(c, "CsrRejected")
    ELSE LET cfg == [config EXCEPT !.bridgeID = PairedBridgeID(config, discoveredBridges)]
         IN IF certResult.SigningResult = <<>>
            THEN \* certResult.Body.SigningResult is undefined: a TypeError escapes
                 /\ config' = cfg
                 /\ call' = [call EXCEPT ![c] = [Returned(cl) EXCEPT !.pc = "Threw"]]
                 /\ updateStatus(<<>>)
                 /\ PairingEnded(c, "StoreThrew")
                 /\ UNCHANGED <<secrets, saved>>
            ELSE /\ Reinitialize(c, Returned(cl), cfg,
                        [secrets EXCEPT !.bridgeCerts = <<BridgeCerts(certResult, cl.keys)>>],
                        <<>>)
                 /\ PairingEnded(c, "Paired")

\* CsrMessage whose listener resolves the wait also after the deadline has fired
CsrMessageAfterDeadline(c, certResult) ==
    /\ call[c].listener = "csr"
    /\ Delivered(c, certResult)
    /\ CsrResolved(c, [call[c] EXCEPT !.listener = "none", !.timer = 0], certResult)
    /\ UNCHANGED <<discoveredBridges, devicesOnBridge, bridge, sessions, destroyed, feed, fed>>

\* a message reaches the once-listener of the CSR wait
CsrMessage(c, certResult) ==
    /\ call[c].listener = "csr"
    /\ Delivered(c, certResult)
    /\ IF call[c].pc # "AwaitCsr"
       THEN \* the promise is already rejected: clearTimeout and resolve do nothing
            /\ call' = [call EXCEPT ![c].listener = "none"]
            /\ updateStatus(<<>>)
            /\ pairingResult' = <<>>
            /\ enumerated' = <<>>
            /\ UNCHANGED <<config, secrets, saved>>
       ELSE CsrResolved(c, [call[c] EXCEPT !.listener = "none", !.timer = 0], certResult)
    /\ UNCHANGED <<discoveredBridges, devicesOnBridge, bridge, sessions, destroyed, feed, fed>>

\* CsrTimeout of a pairWithBridge that stores the private key before the response
CsrTimeoutKeyStored(c) ==
    /\ call[c].pc = "AwaitCsr"
    /\ call[c].timer = CSR_WINDOW_MS
    /\ Reinitialize(c, Returned(call[c]), config,
                    [secrets EXCEPT !.bridgeCerts =
                        <<[ca |-> Undefined, certificate |-> Undefined,
                           privateKey |-> PrivateKeyPem(call[c].keys)]>>],
                    <<Status("ConnectionFailure", "CSR failed: CSR response timed out")>>)
    /\ PairingEnded(c, "CsrTimeout")
    /\ delivered' = <<>>
    /\ UNCHANGED <<discoveredBridges, devicesOnBridge, bridge, sessions, destroyed, feed, fed>>

\* the 5 s timer of the CSR wait fires
CsrTimeout(c) ==
    /\ call[c].pc = "AwaitCsr"
    /\ call[c].timer = CSR_WINDOW_MS
    /\ Reinitialize(c, Returned(call[c]), config, secrets,
                    <<Status("ConnectionFailure", "CSR failed: CSR response timed out")>>)
    /\ PairingEnded(c, "CsrTimeout")
    /\ delivered' = <<>>
    /\ UNCHANGED <<discoveredBridges, devicesOnBridge, bridge, sessions, destroyed, feed, fed>>

\* leapClient.connect() resolves: this.bridge = new SmartBridge(...), getDeviceInfo()
SessConnectOk(c) ==
    /\ call[c].pc = "SessConnecting"
    /\ bridge' = <<[id |-> config.bridgeID, call |-> c]>>
    /\ sessions' = sessions \cup {c}
    /\ call' = [call EXCEPT ![c].pc = "Enumerating", ![c].leap = <<>>]
    /\ updateStatus(<<>>)
    /\ NoResult
    /\ UNCHANGED <<config, secrets, discoveredBridges, devicesOnBridge, saved, destroyed,
                   feed, fed>>

\* SessConnectFail that falls through to the end of connectToBridge
SessConnectFailFallsThrough(c) ==
    /\ call[c].pc = "SessConnecting"
    /\ call' = [call EXCEPT ![c].pc = "Done", ![c].leap = <<>>]
    /\ updateStatus(<<Status("ConnectionFailure", "Bridge connection failed"), Status("Ok", "")>>)
    /\ NoResult
    /\ UNCHANGED <<config, secrets, discoveredBridges, devicesOnBridge, bridge, sessions,
                   saved, destroyed, feed, fed>>

\* leapClient.connect() rejects
SessConnectFail(c) ==
    /\ call[c].pc = "SessConnecting"
    /\ call' = [call EXCEPT ![c].pc = "Done", ![c].leap = <<>>]
    /\ updateStatus(<<Status("ConnectionFailure", "Bridge connection failed")>>)
    /\ NoResult
    /\ UNCHANGED <<config, secrets, discoveredBridges, devicesOnBridge, bridge, sessions,
                   saved, destroyed, feed, fed>>

\* visitDevice without the AssociatedArea test: every other device is pushed
visitDeviceNoAreaTest(acc, device) ==
    IF device.isError
    THEN acc
    ELSE IF acc.bridgeID = UNKNOWN_BRIDGE_ID /\ device.DeviceType = "SmartBridge"
         THEN [acc EXCEPT !.bridgeID = device.SerialNumber, !.saved = TRUE]
         ELSE [acc EXCEPT !.devicesOnBridge = Append(@, device)]

\* the body of devices.forEach for one item; acc is what the loop has changed
visitDevice(acc, device) ==
    IF device.isError
    THEN acc
    ELSE IF acc.bridgeID = UNKNOWN_BRIDGE_ID /\ device.DeviceType = "SmartBridge"
         THEN [acc EXCEPT !.bridgeID = device.SerialNumber, !.saved = TRUE]
         ELSE IF device.AssociatedArea
              THEN [acc EXCEPT !.devicesOnBridge = Append(@, device)]
              ELSE acc

\* forEachDevice in which an Error item ends the loop
RECURSIVE forEachDeviceStopAtError(_, _, _)
forEachDeviceStopAtError(devices, i, acc) ==
    IF i > Len(devices) \/ devices[i].isError THEN acc
    ELSE forEachDeviceStopAtError(devices, i + 1, visitDevice(acc, devices[i]))

RECURSIVE forEachDevice(_, _, _)
forEachDevice(devices, i, acc) ==
    IF i > Len(devices) THEN acc
    ELSE forEachDevice(devices, i + 1, visitDevice(acc, devices[i]))

\* getDeviceInfo() resolves with the enumeration; the loop and updateStatus(Ok)
EnumerateOk(c, devices) ==
    /\ call[c].pc = "Enumerating"
    /\ LET acc == forEachDevice(devices, 1,
                      [bridgeID |-> config.bridgeID, devicesOnBridge |-> devicesOnBridge,
                       saved |-> FALSE])
           cfg == [config EXCEPT !.bridgeID = acc.bridgeID]
       IN /\ config' = cfg
          /\ devicesOnBridge' = acc.devicesOnBridge
          /\ saved' = IF acc.saved THEN [config |-> cfg, secrets |-> secrets] ELSE saved
    /\ call' = [call EXCEPT ![c].pc = "Done"]
    /\ updateStatus(<<Status("Ok", "")>>)
    /\ pairingResult' = <<>>
    /\ delivered' = <<>>
    /\ enumerated' = <<[call |-> c, bridgeID |-> config.bridgeID, devices |-> devices]>>
    /\ UNCHANGED <<secrets, discoveredBridges, bridge, sessions, destroyed, feed, fed>>

\* getDeviceInfo() rejects: nothing catches it
EnumerateFail(c) ==
    /\ call[c].pc = "Enumerating"
    /\ call' = [call EXCEPT ![c].pc = "Threw"]
    /\ updateStatus(<<>>)
    /\ NoResult
    /\ UNCHANGED <<config, secrets, discoveredBridges, devicesOnBridge, bridge, sessions,
                   saved, destroyed, feed, fed>>

\* the host calls destroy(): this.bridge?.close()
Destroy ==
    /\ call[InitCall].pc # "Idle"
    /\ ~destroyed
    /\ destroyed' = TRUE
    /\ sessions' = IF bridge = <<>> THEN sessions ELSE sessions \ {bridge[1].call}
    /\ updateStatus(<<>>)
    /\ NoResult
    /\ UNCHANGED <<config, secrets, discoveredBridges, devicesOnBridge, bridge, saved, call,
                   feed, fed>>

\* an invocation of init or configUpdated has not returned yet
Busy == \E c \in Calls : call[c].pc \notin {"Idle", "Done", "Threw"}

\* one turn of the event loop; overlap: the host may call configUpdated while an
\* earlier invocation is suspended; enumerations: what getDeviceInfo() may return
Turn(overlap, enumerations) ==
    \/ HostInit
    \/ \E e \in DiscoveryEvents : Discovered(e.ipAddr, e.bridgeid) /\ UNCHANGED <<feed, fed>>
    \/ \E c \in UpdateCalls, h \in Hosts : (overlap \/ ~Busy) /\ ConfigUpdated(c, h)
    \/ \E c \in UpdateCalls : PairConnectOk(c)
    \/ \E c \in UpdateCalls : PairConnectFail(c)
    \/ \E c \in UpdateCalls, m \in StatusMessages : ConfirmMessage(c, m)
    \/ \E c \in UpdateCalls : ConfirmTimeout(c)
    \/ \E c \in UpdateCalls : KeyGenOk(c)
    \/ \E c \in UpdateCalls : KeyGenFail(c)
    \/ \E c \in UpdateCalls : \E m \in CsrWaitMessages(call[c].client, call[c].keys) :
           CsrMessage(c, m)
    \/ \E c \in UpdateCalls : CsrTimeout(c)
    \/ \E c \in Calls : SessConnectOk(c)
    \/ \E c \in Calls : SessConnectFail(c)
    \/ \E c \in Calls, devices \in enumerations : EnumerateOk(c, devices)
    \/ \E c \in Calls : EnumerateFail(c)
    \/ Destroy

Next == Turn(TRUE, Enumerations)

\* the host waits for each invocation to return, and the bridge lists one control
\* unit at most: every behaviour of SpecTypical is a behaviour of Spec
TypicalEnumerations ==
    {devices \in Enumerations :
        Cardinality({i \in DOMAIN devices : devices[i].DeviceType = "SmartBridge"}) <= 1}
NextTypical == Turn(FALSE, TypicalEnumerations)

\* as NextTypical, the bridge listing one item at most
NextStored == Turn(FALSE, {devices \in Enumerations : Len(devices) <= 1})

\* the 'discovered' listener runs for the next event of the feed
FeedDiscovered ==
    /\ fed < Len(feed)
    /\ Discovered(feed[fed + 1].ipAddr, feed[fed + 1].bridgeid)
    /\ fed' = fed + 1
    /\ UNCHANGED feed

\* init starts discovery and the feed is delivered
NextDiscovery ==
    \/ HostInit
    \/ FeedDiscovered

Spec == Init /\ [][Next]_vars
SpecTypical == Init /\ [][NextTypical]_vars
SpecDiscovery == InitDiscovery /\ [][NextDiscovery]_vars
SpecStored == InitStored /\ [][NextStored]_vars

\* ------------------------------------------------------------------ claims
PairingPcs == {"PairConnecting", "AwaitConfirm", "GeneratingKeys", "AwaitCsr"}
PairingInFlight == {c \in UpdateCalls : call[c].pc \in PairingPcs}
PairingEndedAs(c, outcome) == pairingResult = <<[call |-> c, outcome |-> outcome]>>
ConfirmingMessage == StatusMessage({"Public", "PhysicalAccess"})
IsControlUnit(device) == ~device.isError /\ device.DeviceType = "SmartBridge"
Range(seq) == {seq[i] : i \in DOMAIN seq}
Populated(certs) ==
    {f \in {"ca", "certificate", "privateKey"} : certs[f] # Undefined}

\* C1: at most one pairWithBridge is in flight at any time, and a stored bundle
\* never pairs the certificate of one attempt with the private key of another.
C1_OnePairingInFlight ==
    /\ Cardinality(PairingInFlight) <= 1
    /\ \A s \in {secrets, saved.secrets} :
           s.bridgeCerts # <<>> =>
               s.bridgeCerts[1].certificate.key = s.bridgeCerts[1].privateKey.key

\* C2: every LeapClient that is being connected carries a bundle issued by the
\* bridge at the host it connects to (never the old host's bundle on a new host).
C2_NoOldBundleOnNewHost ==
    \A c \in Calls :
        call[c].leap # <<>> => call[c].leap[1].ca.issuer = call[c].leap[1].host

\* C3: the bundle in this.secrets and the bundle the host has saved are each
\* absent or have root certificate, client certificate and private key all present.
C3_BundleAllOrNothing ==
    \A s \in {secrets, saved.secrets} :
        s.bridgeCerts # <<>> =>
            Populated(s.bridgeCerts[1]) = {"ca", "certificate", "privateKey"}

C3_Witness ==
    /\ \E c \in UpdateCalls : PairingEndedAs(c, "Paired")
    /\ secrets.bridgeCerts # <<>>
    /\ saved.secrets.bridgeCerts # <<>>

\* C4: an attempt that leaves the confirmation wait without a PhysicalAccess
\* message being delivered to it ends as a pairing timeout, reporting
\* ConnectionFailure 'Pairing timed out', with no key pair generated and no CSR
\* sent; and an attempt that has ended never goes back to a pairing step.
C4_PairingTimeout ==
    [][\A c \in UpdateCalls :
        /\ ( /\ call[c].pc = "AwaitConfirm"
             /\ call'[c].pc # "AwaitConfirm"
             /\ ~( /\ delivered' # <<>>
                   /\ delivered'[1].call = c
                   /\ "PhysicalAccess" \in delivered'[1].message.Permissions) )
           => /\ pairingResult' = <<[call |-> c, outcome |-> "PairingTimeout"]>>
              /\ emitted' # <<>>
              /\ emitted'[1] = Status("ConnectionFailure", "Pairing timed out: timed out")
              /\ call[c].keys = 0 /\ ~call[c].csrSent
              /\ call'[c].keys = 0 /\ ~call'[c].csrSent
              /\ call'[c].pc \notin PairingPcs
        /\ (call[c].pc \notin PairingPcs \cup {"Idle"} => call'[c].pc \notin PairingPcs)
      ]_vars

C4_Witness ==
    \E c \in UpdateCalls :
        /\ PairingEndedAs(c, "PairingTimeout")
        /\ call[c].listener = "none"
        /\ status.st # "ConnectionFailure"

\* C5: a PhysicalAccess message delivered to an attempt that is in the
\* confirmation wait with its 30 s timer still running completes the wait: the
\* attempt goes on to key generation, also after non-confirming messages.
C5_ConfirmAfterOtherMessages ==
    [][\A c \in UpdateCalls :
        ( /\ call[c].pc = "AwaitConfirm"
          /\ call[c].timer = PAIRING_WINDOW_MS
          /\ delivered' = <<[call |-> c, message |-> ConfirmingMessage]>> )
        => call'[c].pc = "GeneratingKeys"
      ]_vars

\* C6: an attempt that leaves the CSR wait with no message delivered to it ends
\* as a CSR timeout, reporting ConnectionFailure; the step changes neither
\* this.secrets.bridgeCerts nor this.config.bridgeID, what it saves is exactly
\* that bundle and id, and the generated key pair is dropped.
C6_CsrTimeout ==
    [][\A c \in UpdateCalls :
        ( /\ call[c].pc = "AwaitCsr"
          /\ call'[c].pc # "AwaitCsr"
          /\ ~(delivered' # <<>> /\ delivered'[1].call = c) )
        => /\ pairingResult' = <<[call |-> c, outcome |-> "CsrTimeout"]>>
           /\ emitted' # <<>>
           /\ emitted'[1] = Status("ConnectionFailure", "CSR failed: CSR response timed out")
           /\ secrets'.bridgeCerts = secrets.bridgeCerts
           /\ config'.bridgeID = config.bridgeID
           /\ saved'.secrets.bridgeCerts = secrets.bridgeCerts
           /\ saved'.config.bridgeID = config.bridgeID
           /\ call[c].keys = c /\ call'[c].keys = 0
      ]_vars

C6_Witness ==
    \E c \in UpdateCalls :
        /\ PairingEndedAs(c, "CsrTimeout")
        /\ secrets.bridgeCerts # <<>>
        /\ secrets.bridgeCerts[1].privateKey.key # c

\* C7: a CSR response whose status code is not '200 OK' ends the attempt as
\* rejected, reporting ConnectionFailure with the raw response, and writes no
\* bundle and no bridge id.
C7_CsrRejected ==
    [][\A c \in UpdateCalls :
        ( /\ call[c].pc = "AwaitCsr"
          /\ delivered' # <<>>
          /\ delivered'[1].call = c
          /\ delivered'[1].message.StatusCode # "200 OK" )
        => /\ pairingResult' = <<[call |-> c, outcome |-> "CsrRejected"]>>
           /\ emitted' # <<>>
           /\ emitted'[1] = StatusRaw("ConnectionFailure", "CSR failed: bad CSR response",
                                      delivered'[1].message)
           /\ secrets'.bridgeCerts = secrets.bridgeCerts
           /\ config'.bridgeID = config.bridgeID
           /\ saved'.secrets.bridgeCerts = secrets.bridgeCerts
           /\ saved'.config.bridgeID = config.bridgeID
      ]_vars

C7_Witness ==
    \E c \in UpdateCalls :
        /\ PairingEndedAs(c, "CsrRejected")
        /\ delivered = <<[call |-> c, message |-> RejectMessage]>>

\* C8: when an attempt completes successfully the bridge id becomes the id the
\* registry holds at that moment for the address the attempt paired with, or
\* UNKNOWN_BRIDGE_ID when the registry has no entry for that address.
C8_IdentityOfPairedAddress ==
    [][\A c \in UpdateCalls :
        pairingResult' = <<[call |-> c, outcome |-> "Paired"]>>
        => config'.bridgeID =
               IF discoveredBridges[call[c].client] # NotDiscovered
               THEN discoveredBridges[call[c].client]
               ELSE UNKNOWN_BRIDGE_ID
      ]_vars

\* C9: after a connection that started with UNKNOWN_BRIDGE_ID, every control unit
\* of its enumeration has given its serial to the bridge id, in this.config and
\* as saved, and is not in devicesOnBridge.
C9_UnknownIdentityResolved ==
    \A e \in Range(enumerated) :
        e.bridgeID = UNKNOWN_BRIDGE_ID =>
            \A d \in Range(e.devices) :
                IsControlUnit(d) =>
                    /\ config.bridgeID = d.SerialNumber
                    /\ saved.config.bridgeID = d.SerialNumber
                    /\ d \notin Range(devicesOnBridge)

\* C10: no control unit (DeviceType SmartBridge) is ever in devicesOnBridge.
C10_NoControlUnitInList ==
    \A d \in Range(devicesOnBridge) : ~IsControlUnit(d)

\* C11: a device without an associated area is never in devicesOnBridge, and an
\* enumeration that reports such a device still ends in the Ok status with the
\* invocation returned.
C11_NoAreaNotListed ==
    /\ \A d \in Range(devicesOnBridge) : d.AssociatedArea
    /\ \A e \in Range(enumerated) :
           (\E d \in Range(e.devices) : ~d.isError /\ ~d.AssociatedArea)
           => status = Status("Ok", "") /\ call[e.call].pc = "Done"

C11_Witness ==
    \E e \in Range(enumerated) :
        /\ Device("Pico", "D2", FALSE) \in Range(e.devices)
        /\ Device("WallDimmer", "D1", TRUE) \in Range(e.devices)
        /\ Device("WallDimmer", "D1", TRUE) \in Range(devicesOnBridge)

\* C12: an enumeration with a per-item error still ends in the Ok status with the
\* invocation returned; the error item is not in devicesOnBridge, and every valid
\* device of that enumeration that has an associated area and is not the control
\* unit (which identity resolution handles) is in devicesOnBridge.
C12_ItemErrorTolerated ==
    \A e \in Range(enumerated) :
        ErrorItem \in Range(e.devices)
        => /\ status = Status("Ok", "") /\ call[e.call].pc = "Done"
           /\ ErrorItem \notin Range(devicesOnBridge)
           /\ \A d \in Range(e.devices) :
                  (~d.isError /\ d.AssociatedArea /\ ~IsControlUnit(d))
                  => d \in Range(devicesOnBridge)

C12_Witness ==
    \E e \in Range(enumerated) :
        /\ e.devices = <<ErrorItem, Device("WallDimmer", "D1", TRUE)>>
        /\ devicesOnBridge = <<Device("WallDimmer", "D1", TRUE)>>

\* the events of a feed that are about address h, in their order of arrival
PerAddress(events, h) == SelectSeq(events, LAMBDA e : e.ipAddr = h)
MostRecent(events, h) ==
    IF PerAddress(events, h) = <<>> THEN NotDiscovered
    ELSE PerAddress(events, h)[Len(PerAddress(events, h))].bridgeid

\* C13: after the listener has handled any part of any feed, the registry maps
\* each address to the id of the most recent handled event about that address
\* (a function of that address's own events only, so interleaving with other
\* addresses' events does not matter), and an address that has occurred keeps an
\* entry.
C13_RegistryMostRecent ==
    \A h \in Hosts :
        /\ discoveredBridges[h] = MostRecent(SubSeq(feed, 1, fed), h)
        /\ (\E i \in 1..fed : feed[i].ipAddr = h) => discoveredBridges[h] \in BridgeIds

C13_Witness ==
    /\ feed = <<BridgeNetInfo("h1", "B1"), BridgeNetInfo("h2", "B2"),
                BridgeNetInfo("h1", "B2"), BridgeNetInfo("h2", "B1")>>
    /\ fed = 3
    /\ discoveredBridges = [h \in Hosts |-> "B2"]

\* init has run in the turn and called connectToBridge (a bundle exists) with no
\* bridge identity
NotConfigured ==
    /\ Status("Connecting", "Initializing") \in Range(emitted)
    /\ secrets.bridgeCerts # <<>>
    /\ config.bridgeID = NoID
BadConfigStatus == Status("BadConfig", "No valid configuration or pairing found")

\* C14: a turn in which connectToBridge is entered without a bridge identity
\* ends with the bad-configuration status; no LeapClient is created or being
\* connected, the session, the open connections and the device list are as before,
\* and the bundle and the (absent) identity are what the host holds.
C14_NotConfiguredFailsFast ==
    [][NotConfigured'
       => /\ emitted'[Len(emitted')] = BadConfigStatus
          /\ status' = BadConfigStatus
          /\ \A c \in Calls : call'[c].leap = <<>> /\ call'[c].pc # "SessConnecting"
          /\ bridge' = bridge /\ sessions' = sessions
          /\ devicesOnBridge' = devicesOnBridge
          /\ saved'.secrets = secrets' /\ saved'.config = config'
      ]_vars

C14_Witness ==
    /\ NotConfigured
    /\ status = BadConfigStatus
    /\ call[1].pc = "Done"

\* C17: once the unresolvable identity has been reported (a bundle but no bridge
\* identity), the bundle is cleared, in this.secrets and in what the host holds.
C17_UnresolvableBundleCleared ==
    status = BadConfigStatus
    => secrets.bridgeCerts = <<>> /\ saved.secrets.bridgeCerts = <<>>

\* C15: after destroy() nothing fires that changes the instance's status,
\* configuration or secrets (every timer is cancelled, every listener removed).
C15_NothingFiresAfterDestroy ==
    [][destroyed => status' = status /\ config' = config /\ secrets' = secrets]_vars

FailureStatuses == {"ConnectionFailure", "BadConfig", "Disconnected"}

\* C16: no invocation ends by an exception that nothing reports, and in the turn
\* in which a pairing attempt ends in failure the status is left at a failure
\* status.
C16_FailuresReported ==
    /\ \A c \in Calls : call[c].pc # "Threw"
    /\ \A r \in Range(pairingResult) :
           r.outcome # "Paired" => status.st \in FailureStatuses

\* C18: in both timed waits one outcome takes effect. The message that is
\* accepted cancels the deadline, and the attempt then does not end as that
\* wait's timeout; a timeout ends only an attempt that is in the wait with its
\* deadline pending; and a message delivered to an invocation that has left the
\* waits (the deadline fired) changes neither its position nor status,
\* configuration, secrets or what is saved.
C18_OneOutcomePerWait ==
    [][\A c \in UpdateCalls :
        /\ (call[c].pc = "AwaitConfirm" /\ call'[c].pc = "GeneratingKeys")
           => /\ call'[c].timer = 0
              /\ delivered' = <<[call |-> c, message |-> ConfirmingMessage]>>
              /\ pairingResult' = <<>>
        /\ (call[c].pc = "AwaitCsr" /\ delivered' # <<>> /\ delivered'[1].call = c)
           => /\ call'[c].timer = 0
              /\ pairingResult' # <<[call |-> c, outcome |-> "CsrTimeout"]>>
        /\ pairingResult' = <<[call |-> c, outcome |-> "PairingTimeout"]>>
           => call[c].pc = "AwaitConfirm" /\ call[c].timer = PAIRING_WINDOW_MS
        /\ pairingResult' = <<[call |-> c, outcome |-> "CsrTimeout"]>>
           => call[c].pc = "AwaitCsr" /\ call[c].timer = CSR_WINDOW_MS
        /\ ( /\ delivered' # <<>> /\ delivered'[1].call = c
             /\ call[c].pc \notin {"AwaitConfirm", "AwaitCsr"} )
           => /\ call'[c].pc = call[c].pc
              /\ emitted' = <<>> /\ status' = status
              /\ config' = config /\ secrets' = secrets /\ saved' = saved
      ]_vars

\* a signed certificate arrives after the CSR deadline has fired and the
\* invocation has returned
C18_Witness ==
    \E c \in UpdateCalls :
        /\ delivered # <<>>
        /\ delivered[1].call = c
        /\ delivered[1].message.SigningResult # <<>>
        /\ call[c].pc = "Done"
        /\ call[c].listener = "none"
        /\ secrets.bridgeCerts = <<>>

\* what the loop of connectToBridge lists from one enumeration, starting from an
\* empty list
Listed(e) ==
    forEachDevice(e.devices, 1,
        [bridgeID |-> e.bridgeID, devicesOnBridge |-> <<>>, saved |-> FALSE]).devicesOnBridge

\* C19: after a successful connection devicesOnBridge is exactly what the
\* enumeration of that connection lists, nothing carried over or duplicated.
C19_ListRebuilt ==
    \A e \in Range(enumerated) : devicesOnBridge = Listed(e)

\* C20: a turn emits the Ok status only as its last status, and only when it is
\* the turn in which the enumeration of a connected session was received and
\* handled item by item; a failed session connect or enumeration emits none.
C20_OkOnlyAfterEnumeration ==
    [][Status("Ok", "") \in Range(emitted')
       => /\ emitted' = <<Status("Ok", "")>>
          /\ enumerated' # <<>>
          /\ call[enumerated'[1].call].pc = "Enumerating"
          /\ enumerated'[1].call \in sessions \/ destroyed
          /\ devicesOnBridge' = devicesOnBridge \o Listed(enumerated'[1])
      ]_vars

C20_Witness ==
    /\ status = Status("Ok", "")
    /\ \E e \in Range(enumerated) : Len(e.devices) = MaxDevs /\ devicesOnBridge # <<>>
    /\ \E c \in Calls : call[c].pc = "Threw"

\* C21: at most one session connection is open at any time, and none is open
\* after destroy().
C21_OneLiveSession ==
    /\ Cardinality(sessions) <= 1
    /\ destroyed => sessions = {}

\* C22: a permission/status message delivered to an attempt that is waiting for
\* the signed certificate is not taken as the response to its CSR: the attempt
\* stays in the wait with its deadline pending, and the turn changes neither
\* configuration nor secrets and ends no attempt.
C22_OnlyCsrResponseCompletes ==
    [][\A c \in UpdateCalls :
        ( /\ call[c].pc = "AwaitCsr"
          /\ delivered' # <<>>
          /\ delivered'[1].call = c
          /\ delivered'[1].message \in StatusMessages )
        => /\ call'[c].pc = "AwaitCsr"
           /\ call'[c].timer = CSR_WINDOW_MS
           /\ pairingResult' = <<>>
           /\ config' = config /\ secrets' = secrets
      ]_vars
====
